---------------------------- MODULE Spec2Model ----------------------------
(***************************************************************************)
(* A model of buffett_app.py ("The Oracle's Lens V2"): the cached fetch    *)
(* fetch_company_data, the metric engine analyze_buffett_v2, the main     *)
(* flow of the script and the Graham Number block of the valuation tab.   *)
(*                                                                         *)
(* Numbers.  The statements hold float64 cells.  A cell or a derived       *)
(* ratio is modelled as an IEEE 754 double: NaN, an infinity, or           *)
(* sign * mant * 2^exp with a significand of at most 53 bits.  Every       *)
(* division, product and sum is rounded to the nearest double (ties to     *)
(* even), as the hardware does.  Division follows numpy's float64 rules    *)
(* (x/0 is +-inf, 0/0 is NaN, no exception), the mean follows pandas'      *)
(* Series.mean (NaN cells are skipped, the others summed in order).  The   *)
(* sign of a zero is not kept, and the exponent is unbounded: integer      *)
(* cells never take a result out of the double's exponent range.           *)
(*                                                                         *)
(* Statements.  A DataFrame is [cols, rows]: cols is the number of period  *)
(* columns (most recent first) and rows maps each line-item label that is  *)
(* present to its series of cols cells.  Both statements of one bundle     *)
(* carry the same period index, so the row-by-row arithmetic of the        *)
(* engine needs no index alignment.                                        *)
(***************************************************************************)
EXTENDS Integers, Sequences, FiniteSets, TLC

VARIABLES
    now,          \* wall clock, in seconds
    cache,        \* st.cache_data store of fetch_company_data: ticker -> entry
    input_ticker, \* the ticker of the script run in progress
    data_pack,    \* first component returned by fetch_company_data
    error,        \* second component returned by fetch_company_data
    pc,           \* position of the script run
    roe,          \* locals of analyze_buffett_v2 after block 1
    margin,       \* locals of analyze_buffett_v2 after block 2
    debt_to_equity, \* local of analyze_buffett_v2 after block 3
    book_growth,  \* local of analyze_buffett_v2 after block 4
    analysis,     \* the report returned by analyze_buffett_v2
    shown         \* what the script run has put on the page

vars == <<now, cache, input_ticker, data_pack, error, pc, roe, margin,
          debt_to_equity, book_growth, analysis, shown>>

-----------------------------------------------------------------------------
(* Bounds of the model *)

MaxPeriods == 2
MaxTime == 4800

(* Program constants *)

TTL == 3600
RoeTargetPct == 15
DebtTargetNum == 8
DebtTargetDen == 10
MarginTargetPct == 40

-----------------------------------------------------------------------------
(* Naturals of any size, for the 53-bit significands: a sequence of limbs *)
(* below Base, least significant first, without a most significant zero.   *)

LimbBits == 15
Base == 2^LimbBits

RECURSIVE BigOfInt(_)
BigOfInt(k) == IF k = 0 THEN <<>> ELSE <<k % Base>> \o BigOfInt(k \div Base)

RECURSIVE BigStrip(_)
BigStrip(x) ==
    IF x = <<>> THEN x
    ELSE IF x[Len(x)] = 0 THEN BigStrip(SubSeq(x, 1, Len(x) - 1))
    ELSE x

RECURSIVE BigAddC(_, _, _)
BigAddC(x, y, c) ==
    IF x = <<>> /\ y = <<>> THEN (IF c = 0 THEN <<>> ELSE <<c>>)
    ELSE LET t == (IF x = <<>> THEN 0 ELSE Head(x))
                  + (IF y = <<>> THEN 0 ELSE Head(y)) + c
         IN  <<t % Base>> \o BigAddC(IF x = <<>> THEN x ELSE Tail(x),
                                     IF y = <<>> THEN y ELSE Tail(y),
                                     t \div Base)
BigAdd(x, y) == BigAddC(x, y, 0)

\* x - y for x >= y
RECURSIVE BigSubB(_, _, _)
BigSubB(x, y, b) ==
    IF x = <<>> THEN <<>>
    ELSE LET t == Head(x) - (IF y = <<>> THEN 0 ELSE Head(y)) - b
         IN  <<t % Base>> \o BigSubB(Tail(x), IF y = <<>> THEN y ELSE Tail(y),
                                     IF t < 0 THEN 1 ELSE 0)
BigSub(x, y) == BigStrip(BigSubB(x, y, 0))

\* -1, 0 or 1
RECURSIVE BigCmpAt(_, _, _)
BigCmpAt(x, y, i) ==
    IF i = 0 THEN 0
    ELSE IF x[i] > y[i] THEN 1
    ELSE IF x[i] < y[i] THEN -1
    ELSE BigCmpAt(x, y, i - 1)
BigCmp(x, y) ==
    IF Len(x) > Len(y) THEN 1
    ELSE IF Len(x) < Len(y) THEN -1
    ELSE BigCmpAt(x, y, Len(x))

\* x * k + c for 0 <= k, c < Base
RECURSIVE BigMulC(_, _, _)
BigMulC(x, k, c) ==
    IF x = <<>> THEN (IF c = 0 THEN <<>> ELSE <<c>>)
    ELSE LET t == Head(x) * k + c
         IN  <<t % Base>> \o BigMulC(Tail(x), k, t \div Base)
BigMul(x, k) == BigStrip(BigMulC(x, k, 0))

\* quotient and remainder of x by 0 < k < Base
RECURSIVE BigDivSmall(_, _)
BigDivSmall(x, k) ==
    IF x = <<>> THEN [q |-> <<>>, r |-> 0]
    ELSE LET hi == BigDivSmall(Tail(x), k)
             cur == hi.r * Base + Head(x)
         IN  [q |-> <<cur \div k>> \o hi.q, r |-> cur % k]

\* the largest digit d in lo..hi with y * d <= x
RECURSIVE BigDigit(_, _, _, _)
BigDigit(x, y, lo, hi) ==
    IF lo = hi THEN lo
    ELSE LET mid == (lo + hi + 1) \div 2
         IN  IF BigCmp(BigMul(y, mid), x) <= 0
             THEN BigDigit(x, y, mid, hi)
             ELSE BigDigit(x, y, lo, mid - 1)

\* long division of x by y # 0, limb by limb from the most significant
RECURSIVE BigLong(_, _)
BigLong(x, y) ==
    IF x = <<>> THEN [q |-> <<>>, r |-> <<>>]
    ELSE LET hi == BigLong(Tail(x), y)
             cur == BigStrip(<<Head(x)>> \o hi.r)
             digit == BigDigit(cur, y, 0, Base - 1)
         IN  [q |-> <<digit>> \o hi.q, r |-> BigSub(cur, BigMul(y, digit))]

BigDivMod(x, y) ==
    IF Len(y) = 1
    THEN [q |-> BigStrip(BigDivSmall(x, y[1]).q),
          r |-> BigOfInt(BigDivSmall(x, y[1]).r)]
    ELSE [q |-> BigStrip(BigLong(x, y).q), r |-> BigLong(x, y).r]

\* x * 2^s and floor(x / 2^s)
BigShl(x, s) ==
    IF x = <<>> THEN x
    ELSE [i \in 1..(s \div LimbBits) |-> 0] \o BigMulC(x, 2^(s % LimbBits), 0)
BigShr(x, s) ==
    IF s \div LimbBits >= Len(x) THEN <<>>
    ELSE BigStrip(BigDivSmall(SubSeq(x, s \div LimbBits + 1, Len(x)),
                              2^(s % LimbBits)).q)

RECURSIVE IntBitLen(_)
IntBitLen(k) == IF k = 0 THEN 0 ELSE 1 + IntBitLen(k \div 2)
BigBitLen(x) ==
    IF x = <<>> THEN 0 ELSE LimbBits * (Len(x) - 1) + IntBitLen(x[Len(x)])

\* number of trailing zero bits of x # 0
RECURSIVE IntTrailing(_)
IntTrailing(k) == IF k % 2 = 1 THEN 0 ELSE 1 + IntTrailing(k \div 2)
RECURSIVE BigTrailing(_)
BigTrailing(x) ==
    IF Head(x) = 0 THEN LimbBits + BigTrailing(Tail(x)) ELSE IntTrailing(Head(x))

BigIsOdd(x) == x # <<>> /\ Head(x) % 2 = 1

-----------------------------------------------------------------------------
(* float64 values: sign * mant * 2^exp with an odd significand of at most  *)
(* 53 bits, or NaN, or an infinity                                          *)

MantissaBits == 53

NaN == [kind |-> "nan", sign |-> 0, mant |-> <<>>, exp |-> 0]
PosInf == [kind |-> "inf", sign |-> 1, mant |-> <<>>, exp |-> 0]
NegInf == [kind |-> "inf", sign |-> -1, mant |-> <<>>, exp |-> 0]
Zero == [kind |-> "fin", sign |-> 0, mant |-> <<>>, exp |-> 0]

IsNaN(v) == v.kind = "nan"
IsInf(v) == v.kind = "inf"
IsFinite(v) == v.kind = "fin"
Sign(v) == v.sign

Abs(k) == IF k < 0 THEN -k ELSE k

\* sign * m * 2^e, exactly, m of at most 53 significant bits
Fin(sign, m, e) ==
    IF m = <<>> THEN Zero
    ELSE [kind |-> "fin", sign |-> sign,
          mant |-> BigShr(m, BigTrailing(m)), exp |-> e + BigTrailing(m)]

\* the double nearest to sign * (m + f) * 2^e, ties to even, where f is 0,
\* or some fraction strictly between 0 and 1 when sticky (m then has more
\* than 53 bits)
Round(sign, m, e, sticky) ==
    IF BigBitLen(m) <= MantissaBits THEN Fin(sign, m, e)
    ELSE LET sh == BigBitLen(m) - MantissaBits
             q == BigShr(m, sh)
             c == BigCmp(BigSub(m, BigShl(q, sh)), BigShl(<<1>>, sh - 1))
             up == c > 0 \/ (c = 0 /\ (sticky \/ BigIsOdd(q)))
         IN  Fin(sign, IF up THEN BigAdd(q, <<1>>) ELSE q, e + sh)

\* an integer cell
Num(k) ==
    Round(IF k < 0 THEN -1 ELSE 1, BigOfInt(Abs(k)), 0, FALSE)

Max(i, j) == IF i > j THEN i ELSE j
Min(i, j) == IF i < j THEN i ELSE j

\* float64 true division (numpy): x/0 is an infinity, 0/0 is NaN, and the
\* quotient is rounded to the nearest double
Div(a, b) ==
    IF IsNaN(a) \/ IsNaN(b) THEN NaN
    ELSE IF IsInf(a) /\ IsInf(b) THEN NaN
    ELSE IF IsInf(b) THEN Zero
    ELSE IF Sign(b) = 0 THEN
        (IF Sign(a) = 0 THEN NaN ELSE IF Sign(a) > 0 THEN PosInf ELSE NegInf)
    ELSE IF IsInf(a) THEN
        (IF Sign(a) * Sign(b) > 0 THEN PosInf ELSE NegInf)
    ELSE IF Sign(a) = 0 THEN Zero
    ELSE LET k == Max(0, MantissaBits + 2 + BigBitLen(b.mant) - BigBitLen(a.mant))
             dm == BigDivMod(BigShl(a.mant, k), b.mant)
         IN  Round(a.sign * b.sign, dm.q, a.exp - k - b.exp, dm.r # <<>>)

\* v * 100, rounded to the nearest double
Times100(v) ==
    IF IsFinite(v) THEN Round(v.sign, BigMul(v.mant, 100), v.exp, FALSE) ELSE v

\* the significand of a finite v scaled to the exponent e <= v.exp
Scaled(v, e) == BigShl(v.mant, v.exp - e)

\* a + b, rounded to the nearest double
Add(a, b) ==
    IF IsNaN(a) \/ IsNaN(b) THEN NaN
    ELSE IF IsInf(a) /\ IsInf(b) THEN (IF a = b THEN a ELSE NaN)
    ELSE IF IsInf(a) THEN a
    ELSE IF IsInf(b) THEN b
    ELSE IF Sign(a) = 0 THEN b
    ELSE IF Sign(b) = 0 THEN a
    ELSE LET e == Min(a.exp, b.exp)
             x == Scaled(a, e)
             y == Scaled(b, e)
         IN  IF a.sign = b.sign THEN Round(a.sign, BigAdd(x, y), e, FALSE)
             ELSE IF BigCmp(x, y) = 0 THEN Zero
             ELSE IF BigCmp(x, y) > 0 THEN Round(a.sign, BigSub(x, y), e, FALSE)
             ELSE Round(b.sign, BigSub(y, x), e, FALSE)

\* a > b and a < b on float64: every comparison with NaN is False
Gt(a, b) ==
    IF IsNaN(a) \/ IsNaN(b) THEN FALSE
    ELSE IF IsInf(a) \/ IsInf(b) THEN
        (IF IsInf(a) /\ IsInf(b) THEN a.sign > b.sign
         ELSE IF IsInf(a) THEN a.sign > 0 ELSE b.sign < 0)
    ELSE IF a.sign # b.sign THEN a.sign > b.sign
    ELSE IF a.sign = 0 THEN FALSE
    ELSE LET e == Min(a.exp, b.exp)
             c == BigCmp(Scaled(a, e), Scaled(b, e))
         IN  IF a.sign > 0 THEN c > 0 ELSE c < 0

Lt(a, b) == Gt(b, a)

\* the cells of a series that are not NaN, in order
NotNaNCells(s) == SelectSeq(s, LAMBDA v : ~IsNaN(v))

\* the running sum, cell after cell from the first
RECURSIVE SumFrom(_, _)
SumFrom(acc, s) == IF s = <<>> THEN acc ELSE SumFrom(Add(acc, Head(s)), Tail(s))
SumSeq(s) == SumFrom(Zero, s)

\* pandas Series.mean(): skipna=True, NaN for a series with no value left
Mean(s) ==
    LET kept == NotNaNCells(s)
    IN  IF Len(kept) = 0 THEN NaN ELSE Div(SumSeq(kept), Num(Len(kept)))

-----------------------------------------------------------------------------
(* DataFrames *)

NoRows == [r \in {} |-> <<>>]
EmptyFrame == [cols |-> 0, rows |-> NoRows]

\* DataFrame.empty: some axis has length 0
IsEmpty(frame) == frame.cols = 0 \/ DOMAIN frame.rows = {}

\* frame.loc[label] raises KeyError when the label is absent
HasRow(frame, label) == label \in DOMAIN frame.rows
Loc(frame, label) == frame.rows[label]

\* series.iloc[0] and series.iloc[-1] raise IndexError on an empty series
CanILoc(s) == Len(s) > 0
ILocFirst(s) == s[1]
ILocLast(s) == s[Len(s)]

(* quoteInfo values: a Python object that is None, a number or a string *)
PyNone == [t |-> "None", v |-> 0, s |-> ""]
PyInt(k) == [t |-> "int", v |-> k, s |-> ""]
PyNaN == [t |-> "nan", v |-> 0, s |-> ""]
PyStr(str) == [t |-> "str", v |-> 0, s |-> str]

\* dict.get(key, default)
InfoGet(info, key, default) == IF key \in DOMAIN info THEN info[key] ELSE default

-----------------------------------------------------------------------------
(* analyze_buffett_v2: the four guarded blocks and the returned report.     *)
(* margin_volatility (Series.std, default 100) is assigned by block 2 and   *)
(* never read afterwards; it is not represented.                            *)

\* a / b on two series over the same period index
SeriesDiv(a, b) == [i \in 1..Len(a) |-> Div(a[i], b[i])]
SeriesTimes100(s) == [i \in 1..Len(s) |-> Times100(s[i])]

\* what the except branches assign: a Python list [] in place of a Series
PyList == [is_list |-> TRUE, cells |-> <<>>]
PySeries(s) == [is_list |-> FALSE, cells |-> s]

\* 1. RETURN ON EQUITY: the try body raises on a missing row (KeyError) or
\* on iloc[0] of a series without periods (IndexError)
RoeRaises(fin, bs) ==
    \/ ~HasRow(fin, "Net Income")
    \/ ~HasRow(bs, "Stockholders Equity")
    \/ ~CanILoc(Loc(fin, "Net Income"))

RoeSeries(fin, bs) ==
    SeriesTimes100(SeriesDiv(Loc(fin, "Net Income"), Loc(bs, "Stockholders Equity")))

RoeBlock(fin, bs) ==
    IF RoeRaises(fin, bs)
    THEN [avg_roe |-> Zero, current_roe |-> Zero, roe_series |-> PyList]
    ELSE [avg_roe |-> Mean(RoeSeries(fin, bs)),
          current_roe |-> ILocFirst(RoeSeries(fin, bs)),
          roe_series |-> PySeries(RoeSeries(fin, bs))]

\* 2. THE MOAT: the try body raises only on a missing row; mean() of a
\* series without periods is NaN, not an exception
MarginRaises(fin) ==
    ~HasRow(fin, "Gross Profit") \/ ~HasRow(fin, "Total Revenue")

MarginSeries(fin) ==
    SeriesTimes100(SeriesDiv(Loc(fin, "Gross Profit"), Loc(fin, "Total Revenue")))

MarginBlock(fin) ==
    IF MarginRaises(fin)
    THEN [avg_margin |-> Zero, margin_series |-> PyList]
    ELSE [avg_margin |-> Mean(MarginSeries(fin)),
          margin_series |-> PySeries(MarginSeries(fin))]

\* 3. FINANCIAL FORTRESS: bs.loc[label].iloc[0] raises when the row is
\* absent or has no period; the division itself never raises
CanReadLatest(bs, label) == HasRow(bs, label) /\ CanILoc(Loc(bs, label))
Latest(bs, label) == ILocFirst(Loc(bs, label))

TotalDebtRaises(bs) ==
    ~CanReadLatest(bs, "Total Debt") \/ ~CanReadLatest(bs, "Stockholders Equity")

LongTermDebtRaises(bs) ==
    ~CanReadLatest(bs, "Long Term Debt") \/ ~CanReadLatest(bs, "Stockholders Equity")

DebtBlock(bs) ==
    IF ~TotalDebtRaises(bs)
    THEN Div(Latest(bs, "Total Debt"), Latest(bs, "Stockholders Equity"))
    ELSE IF ~LongTermDebtRaises(bs)
    THEN Div(Latest(bs, "Long Term Debt"), Latest(bs, "Stockholders Equity"))
    ELSE Zero

\* 4. BOOK VALUE GROWTH: equity_history.iloc[0] > equity_history.iloc[-1]
BookBlock(bs) ==
    IF ~CanReadLatest(bs, "Stockholders Equity")
    THEN FALSE
    ELSE Gt(ILocFirst(Loc(bs, "Stockholders Equity")),
            ILocLast(Loc(bs, "Stockholders Equity")))

\* the return statement: margin_series.iloc[0] is evaluated outside every
\* try block and raises IndexError on a Series without periods
ReturnRaises(m) == ~m.margin_series.is_list /\ ~CanILoc(m.margin_series.cells)

\* the float literal 0.8
DebtTarget == Div(Num(DebtTargetNum), Num(DebtTargetDen))
DebtPass(dte) == Lt(dte, DebtTarget)
RoePass(avg) == Gt(avg, Num(RoeTargetPct))

ReportKeys ==
    {"current_roe", "avg_roe", "roe_pass", "current_margin", "margin_series",
     "debt_to_equity", "debt_pass", "book_growth", "currency"}

Report(info, r, m, dte, bg) ==
    [current_roe |-> r.current_roe,
     avg_roe |-> r.avg_roe,
     roe_pass |-> RoePass(r.avg_roe),
     current_margin |-> IF m.margin_series.is_list THEN Zero
                        ELSE ILocFirst(m.margin_series.cells),
     margin_series |-> m.margin_series,
     debt_to_equity |-> dte,
     debt_pass |-> DebtPass(dte),
     book_growth |-> bg,
     currency |-> InfoGet(info, "currency", PyStr("USD"))]

-----------------------------------------------------------------------------
(* fetch_company_data and its st.cache_data(ttl=3600) wrapper *)

\* the (data, error) pair a call returns; Python None is NoData / NoError
NoData == [none |-> TRUE]
Bundle(ticker, info, financials, balance_sheet) ==
    [none |-> FALSE, stock |-> ticker, info |-> info,
     fin |-> financials, bs |-> balance_sheet]

NoError == [none |-> TRUE, msg |-> ""]
Err(text) == [none |-> FALSE, msg |-> text]

NotFoundText ==
    "Ticker not found or delisted. Try adding a suffix (e.g., .TO for Toronto)."

\* the data provider's answer to one call of the body: it raises with a
\* message, or yields the quote info and the two statements
Raised(text) ==
    [raises |-> TRUE, msg |-> text, info |-> NoRows,
     financials |-> EmptyFrame, balance_sheet |-> EmptyFrame]
Answered(info, financials, balance_sheet) ==
    [raises |-> FALSE, msg |-> "", info |-> info,
     financials |-> financials, balance_sheet |-> balance_sheet]

\* the body of fetch_company_data
FetchBody(ticker, reply) ==
    IF reply.raises
    THEN <<NoData, Err(reply.msg)>>
    ELSE IF "regularMarketPrice" \notin DOMAIN reply.info
            /\ "currentPrice" \notin DOMAIN reply.info
    THEN <<NoData, Err(NotFoundText)>>
    ELSE <<Bundle(ticker, reply.info, reply.financials, reply.balance_sheet),
           NoError>>

\* st.cache_data is Streamlit's code, not this repository's: the source sets
\* only the decorator, its ttl and the function's one argument (lines 55-56).
\* The store, the lookup and the expiry rule below are written from the
\* spec's description of the memoized fetch (keyed by ticker, time-bounded,
\* eviction = TTL), not from code of the repository.
NoEntry == [present |-> FALSE, at |-> 0, value |-> <<NoData, NoError>>]
Entry(at, value) == [present |-> TRUE, at |-> at, value |-> value]
CacheKey(ticker) == ticker
Fresh(entry, t) == entry.present /\ t - entry.at < TTL
CacheHit(c, ticker, t) == Fresh(c[CacheKey(ticker)], t)
CacheValue(c, ticker) == c[CacheKey(ticker)].value
\* the entry carries the time at which it is written, after the body returned
CacheStore(c, ticker, t, value) ==
    [c EXCEPT ![CacheKey(ticker)] = Entry(t, value)]

\* st.cache_data serialises the returned value before it stores it. The pair
\* (None, message) always serialises; a bundle holds the yf.Ticker object
\* (line 79), and whether that object can be serialised depends on the
\* installed yfinance, which the source does not fix: both outcomes are kept.
\* When it cannot, the call raises instead of returning and nothing is stored.
Serialises(value) == IF value[1].none THEN {TRUE} ELSE BOOLEAN

\* `if error:` tests the truth value of the returned message
ErrorIsTruthy(e) == ~e.none /\ e.msg # ""

-----------------------------------------------------------------------------
(* The valuation tab: the Graham Number block *)

PyTruthy(x) ==
    CASE x.t = "None" -> FALSE
      [] x.t = "int" -> x.v # 0
      [] x.t = "nan" -> TRUE
      [] x.t = "str" -> x.s # ""

\* x > 0 raises TypeError on a str; NaN > 0 is False
PyPositive(x) == x.t = "int" /\ x.v > 0

\* `eps and bvps and eps > 0 and bvps > 0`, evaluated left to right
GrahamGuardRaises(eps, bvps) ==
    /\ PyTruthy(eps) /\ PyTruthy(bvps)
    /\ \/ eps.t = "str"
       \/ PyPositive(eps) /\ bvps.t = "str"

\* the guard without its sign tests: `if eps and bvps`
GrahamGuardTruthOnly(eps, bvps) ==
    /\ PyTruthy(eps) /\ PyTruthy(bvps)
    /\ eps.t = "int" /\ bvps.t = "int"

GrahamGuard(eps, bvps) ==
    /\ PyTruthy(eps) /\ PyTruthy(bvps)
    /\ PyPositive(eps) /\ PyPositive(bvps)

\* floor of the square root, by Newton's iteration from above
RECURSIVE SqrtFrom(_, _)
SqrtFrom(x, r) ==
    LET q == (r + x \div r) \div 2
    IN  IF q >= r THEN r ELSE SqrtFrom(x, q)

FloorSqrt(x) == IF x = 0 THEN 0 ELSE SqrtFrom(x, x)

\* (22.5 * eps * bvps) ** 0.5 as st.metric shows it, f"{graham_num:.2f}":
\* the value in hundredths, rounded to the nearest
GrahamCents(eps, bvps) ==
    LET x == 225000 * eps * bvps
        r == FloorSqrt(x)
    IN  IF x > r * r + r THEN r + 1 ELSE r

\* current_p < graham_num: raises TypeError unless current_p is a number
PriceCompareRaises(price) == price.t \in {"None", "str"}
PriceBelowGraham(price, eps, bvps) ==
    /\ price.t = "int"
    /\ \/ price.v < 0
       \/ 2 * price.v * price.v < 45 * eps * bvps

NoGraham == [metric |-> FALSE, cents |-> 0, note |-> "none"]

GrahamBlock(info) ==
    LET eps == InfoGet(info, "trailingEps", PyNone)
        bvps == InfoGet(info, "bookValue", PyNone)
        price == InfoGet(info, "currentPrice", PyNone)
    IN  IF GrahamGuardRaises(eps, bvps)
        THEN [metric |-> FALSE, cents |-> 0, note |-> "insufficient"]
        ELSE IF ~GrahamGuard(eps, bvps)
        THEN [metric |-> FALSE, cents |-> 0, note |-> "cannot calculate"]
        ELSE [metric |-> TRUE,
              cents |-> GrahamCents(eps.v, bvps.v),
              note |-> IF PriceCompareRaises(price) THEN "insufficient"
                       ELSE IF PriceBelowGraham(price, eps.v, bvps.v)
                       THEN "below" ELSE "above"]

\* the header's valuation badge: pe > 0 raises TypeError outside any try
\* block when trailingPE is stored as None or as a string
HeaderRaises(info) == InfoGet(info, "trailingPE", PyInt(0)).t \in {"None", "str"}

ValuationBadge(info) ==
    LET pe == InfoGet(info, "trailingPE", PyInt(0))
    IN  IF pe.t = "int" /\ pe.v > 0 /\ pe.v < 15 THEN "cheap"
        ELSE IF pe.t = "int" /\ pe.v > 30 THEN "expensive"
        ELSE "moderate"

\* the four scorecard tiles
Scorecard(a) ==
    [management |-> a.roe_pass,
     health |-> a.debt_pass,
     moat |-> Gt(a.current_margin, Num(MarginTargetPct)),
     growth |-> a.book_growth]

NoTiles ==
    [management |-> FALSE, health |-> FALSE, moat |-> FALSE, growth |-> FALSE]

\* the page before the script run has written anything below the sidebar
Blank ==
    [error |-> NoError, exception |-> FALSE, unserialisable |-> FALSE,
     badge |-> "none",
     scorecard |-> FALSE, tiles |-> NoTiles, graham |-> NoGraham]

-----------------------------------------------------------------------------
(* Inputs *)

\* what the user may type in the sidebar, and the tickers it stands for
TypedTickers == {"", "aapl", "AAPL", "RY.TO"}
Tickers == {"AAPL", "RY.TO"}
\* str.upper()
Upper(text) == IF text = "aapl" THEN "AAPL" ELSE text
Advances == {1200, 2400, 3600}

Cells(S) == {Num(k) : k \in S} \cup {NaN}
\* 11 / 40 is not exact in binary: (11 / 40) * 100 is 27.500000000000004, and
\* with (1 / 40) * 100 = 2.5 the mean is 15.000000000000002
NetIncomeCells == Cells({-3, 0, 1, 6, 11})
EquityCells == Cells({-2, 0, 4, 40})
TotalDebtCells == Cells({1, 4})
LongTermDebtCells == Cells({2})
GrossProfitCells == Cells({0, 1})
RevenueCells == Cells({0, 2})

\* a line item is absent (<<>>) or present with one series (<<series>>)
Absent == <<>>
Series(n, cells) == [1..n -> cells]
Optional(S) == {Absent} \cup {<<x>> : x \in S}
Steady(n, k) == <<[i \in 1..n |-> Num(k)]>>
Row(label, item) == IF item = Absent THEN NoRows ELSE label :> item[1]

\* pd.DataFrame() when no line item is present
Frame(n, rows) == IF DOMAIN rows = {} THEN EmptyFrame ELSE [cols |-> n, rows |-> rows]

IncomeStatement(n, ni, gp, rev) ==
    Frame(n, Row("Net Income", ni) @@ Row("Gross Profit", gp)
             @@ Row("Total Revenue", rev))
BalanceSheet(n, eq, td, ltd) ==
    Frame(n, Row("Stockholders Equity", eq) @@ Row("Total Debt", td)
             @@ Row("Long Term Debt", ltd))

PricedInfo == ("currentPrice" :> PyInt(40)) @@ ("currency" :> PyStr("CAD"))
UnpricedInfo == "currency" :> PyStr("USD")

Periods == 0..MaxPeriods

\* statement sets that vary the rows of one computation at a time
RoeInputsOf(n) ==
    {<<IncomeStatement(n, ni, Steady(n, 1), Steady(n, 2)),
       BalanceSheet(n, eq, Steady(n, 1), Steady(n, 2))>> :
        ni \in Optional(Series(n, NetIncomeCells)),
        eq \in Optional(Series(n, EquityCells))}
MarginInputsOf(n) ==
    {<<IncomeStatement(n, Steady(n, 6), gp, rev),
       BalanceSheet(n, Steady(n, 4), Steady(n, 1), Steady(n, 2))>> :
        gp \in Optional(Series(n, GrossProfitCells)),
        rev \in Optional(Series(n, RevenueCells))}
DebtInputsOf(n) ==
    {<<IncomeStatement(n, Steady(n, 6), Steady(n, 1), Steady(n, 2)),
       BalanceSheet(n, eq, td, ltd)>> :
        eq \in Optional(Series(n, EquityCells)),
        td \in Optional(Series(n, TotalDebtCells)),
        ltd \in Optional(Series(n, LongTermDebtCells))}
EngineBundle(in) == Bundle("RY.TO", PricedInfo, in[1], in[2])

\* what the provider may answer in the script's main flow
GoodIncome == IncomeStatement(1, Steady(1, 6), Steady(1, 1), Steady(1, 2))
GoodBalance == BalanceSheet(1, Steady(1, 4), Steady(1, 1), Steady(1, 2))
ProviderReplies ==
    {Raised(""), Raised("HTTP Error 404"),
     Answered(UnpricedInfo, GoodIncome, GoodBalance)}
    \cup {Answered(PricedInfo, f, b) :
            f \in {EmptyFrame, GoodIncome}, b \in {EmptyFrame, GoodBalance}}

\* quote info for the valuation tab
EpsValues == {PyNone, PyStr("Infinity"), PyNaN, PyInt(-2), PyInt(0), PyInt(2), PyInt(5)}
BookValues == {PyNone, PyStr("Infinity"), PyNaN, PyInt(-1), PyInt(0), PyInt(10), PyInt(20)}
PriceValues == {PyNone, PyInt(10), PyInt(50)}
InfoItem(key, x) == IF x = PyNone THEN NoRows ELSE key :> x
ValuationInfos ==
    {InfoItem("trailingEps", e) @@ InfoItem("bookValue", b)
     @@ InfoItem("currentPrice", c) @@ ("regularMarketPrice" :> PyInt(40)) :
        e \in EpsValues, b \in BookValues, c \in PriceValues}

-----------------------------------------------------------------------------
(* The script run *)

Unbound == "unbound"

\* a rerun of the script with the sidebar's text: input_ticker is the text
\* in upper case, and an empty one skips the main logic; otherwise
\* fetch_company_data(input_ticker) is called, and the call is answered from
\* the cache while the ticker's entry is fresh or enters the body
Request(typed) ==
    /\ pc = "idle"
    /\ input_ticker' = Upper(typed)
    /\ IF input_ticker' = ""
       THEN /\ pc' = "idle"
            /\ UNCHANGED <<data_pack, error>>
       ELSE IF CacheHit(cache, input_ticker', now)
       THEN /\ pc' = "fetched"
            /\ data_pack' = CacheValue(cache, input_ticker')[1]
            /\ error' = CacheValue(cache, input_ticker')[2]
       ELSE /\ pc' = "fetching"
            /\ data_pack' = NoData
            /\ error' = NoError
    /\ roe' = Unbound /\ margin' = Unbound /\ debt_to_equity' = Unbound
    /\ book_growth' = Unbound /\ analysis' = Unbound
    /\ shown' = Blank
    /\ UNCHANGED <<now, cache>>

\* the body of fetch_company_data returns on the provider's reply, some time
\* after it was entered; the returned pair is stored and bound to
\* data_pack, error, or it cannot be serialised and the call raises out of
\* the script run, which binds neither
FetchReturn ==
    /\ pc = "fetching"
    /\ \E reply \in ProviderReplies :
         \E ok \in Serialises(FetchBody(input_ticker, reply)) :
            IF ok
            THEN /\ pc' = "fetched"
                 /\ data_pack' = FetchBody(input_ticker, reply)[1]
                 /\ error' = FetchBody(input_ticker, reply)[2]
                 /\ cache' = CacheStore(cache, input_ticker, now,
                                        FetchBody(input_ticker, reply))
                 /\ shown' = shown
            ELSE /\ pc' = "idle"
                 /\ shown' = [shown EXCEPT !.unserialisable = TRUE]
                 /\ UNCHANGED <<data_pack, error, cache>>
    /\ UNCHANGED <<now, input_ticker, roe, margin, debt_to_equity,
                   book_growth, analysis>>

\* if error: st.error(...)  else: analysis = analyze_buffett_v2(data_pack)
Branch ==
    /\ pc = "fetched"
    /\ IF ErrorIsTruthy(error)
       THEN pc' = "idle" /\ shown' = [shown EXCEPT !.error = error]
       ELSE pc' = "analyze" /\ shown' = shown
    /\ UNCHANGED <<now, cache, input_ticker, data_pack, error, roe,
                   margin, debt_to_equity, book_growth, analysis>>

\* info = data['info'] ...: subscripting None raises TypeError, which nothing
\* catches
AnalyzeEnter ==
    /\ pc = "analyze"
    /\ IF data_pack.none
       THEN pc' = "idle" /\ shown' = [shown EXCEPT !.exception = TRUE]
       ELSE pc' = "roe" /\ shown' = shown
    /\ UNCHANGED <<now, cache, input_ticker, data_pack, error, roe,
                   margin, debt_to_equity, book_growth, analysis>>

AnalyzeRoe ==
    /\ pc = "roe"
    /\ roe' = RoeBlock(data_pack.fin, data_pack.bs)
    /\ pc' = "margin"
    /\ UNCHANGED <<now, cache, input_ticker, data_pack, error,
                   margin, debt_to_equity, book_growth, analysis, shown>>

AnalyzeMargin ==
    /\ pc = "margin"
    /\ margin' = MarginBlock(data_pack.fin)
    /\ pc' = "debt"
    /\ UNCHANGED <<now, cache, input_ticker, data_pack, error,
                   roe, debt_to_equity, book_growth, analysis, shown>>

AnalyzeDebt ==
    /\ pc = "debt"
    /\ debt_to_equity' = DebtBlock(data_pack.bs)
    /\ pc' = "book"
    /\ UNCHANGED <<now, cache, input_ticker, data_pack, error,
                   roe, margin, book_growth, analysis, shown>>

AnalyzeBook ==
    /\ pc = "book"
    /\ book_growth' = BookBlock(data_pack.bs)
    /\ pc' = "return"
    /\ UNCHANGED <<now, cache, input_ticker, data_pack, error,
                   roe, margin, debt_to_equity, analysis, shown>>

AnalyzeReturn ==
    /\ pc = "return"
    /\ IF ReturnRaises(margin)
       THEN /\ pc' = "raised"
            /\ analysis' = analysis
            /\ shown' = [shown EXCEPT !.exception = TRUE]
       ELSE /\ pc' = "analyzed"
            /\ analysis' = Report(data_pack.info, roe, margin, debt_to_equity,
                                  book_growth)
            /\ shown' = shown
    /\ UNCHANGED <<now, cache, input_ticker, data_pack, error,
                   roe, margin, debt_to_equity, book_growth>>

\* header, scorecard and the three tabs
Render ==
    /\ pc = "analyzed"
    /\ IF HeaderRaises(data_pack.info)
       THEN shown' = [shown EXCEPT !.exception = TRUE]
       ELSE shown' = [shown EXCEPT !.badge = ValuationBadge(data_pack.info),
                                   !.scorecard = TRUE,
                                   !.tiles = Scorecard(analysis),
                                   !.graham = GrahamBlock(data_pack.info)]
    /\ pc' = "rendered"
    /\ UNCHANGED <<now, cache, input_ticker, data_pack, error,
                   roe, margin, debt_to_equity, book_growth, analysis>>

\* the run is over; the page waits for the next interaction
Finish ==
    /\ pc \in {"rendered", "raised"}
    /\ pc' = "idle"
    /\ UNCHANGED <<now, cache, input_ticker, data_pack, error,
                   roe, margin, debt_to_equity, book_growth, analysis, shown>>

\* time passes between script runs and while the provider is answering
Tick(d) ==
    /\ pc \in {"idle", "fetching"}
    /\ now + d <= MaxTime
    /\ now' = now + d
    /\ UNCHANGED <<cache, input_ticker, data_pack, error, pc, roe,
                   margin, debt_to_equity, book_growth, analysis, shown>>

Analyze ==
    \/ AnalyzeEnter
    \/ AnalyzeRoe
    \/ AnalyzeMargin
    \/ AnalyzeDebt
    \/ AnalyzeBook
    \/ AnalyzeReturn

Init ==
    /\ now = 0
    /\ cache = [k \in Tickers |-> NoEntry]
    /\ input_ticker = "RY.TO"
    /\ data_pack = NoData
    /\ error = NoError
    /\ pc = "idle"
    /\ roe = Unbound /\ margin = Unbound /\ debt_to_equity = Unbound
    /\ book_growth = Unbound /\ analysis = Unbound
    /\ shown = Blank

Next ==
    \/ \E typed \in TypedTickers : Request(typed)
    \/ FetchReturn
    \/ Branch
    \/ Analyze
    \/ Render
    \/ Finish
    \/ \E d \in Advances : Tick(d)

Spec == Init /\ [][Next]_vars

(* analyze_buffett_v2 called on each statement set of the three families *)
InitEngine ==
    /\ now = 0
    /\ cache = [k \in Tickers |-> NoEntry]
    /\ input_ticker = "RY.TO"
    /\ \E n \in Periods :
          \/ \E in \in RoeInputsOf(n) : data_pack = EngineBundle(in)
          \/ \E in \in MarginInputsOf(n) : data_pack = EngineBundle(in)
          \/ \E in \in DebtInputsOf(n) : data_pack = EngineBundle(in)
    /\ error = NoError
    /\ pc = "analyze"
    /\ roe = Unbound /\ margin = Unbound /\ debt_to_equity = Unbound
    /\ book_growth = Unbound /\ analysis = Unbound
    /\ shown = Blank

SpecEngine == InitEngine /\ [][Analyze]_vars

(* the page rendered for each quote info of ValuationInfos *)
InitValuation ==
    /\ now = 0
    /\ cache = [k \in Tickers |-> NoEntry]
    /\ input_ticker = "RY.TO"
    /\ \E i \in ValuationInfos : data_pack = Bundle("RY.TO", i, GoodIncome, GoodBalance)
    /\ error = NoError
    /\ pc = "analyzed"
    /\ roe = RoeBlock(GoodIncome, GoodBalance)
    /\ margin = MarginBlock(GoodIncome)
    /\ debt_to_equity = DebtBlock(GoodBalance)
    /\ book_growth = BookBlock(GoodBalance)
    /\ analysis = Report(data_pack.info, roe, margin, debt_to_equity, book_growth)
    /\ shown = Blank

NextValuation == Render \/ Finish

SpecValuation == InitValuation /\ [][NextValuation]_vars

-----------------------------------------------------------------------------
(* Properties *)

\* the positions at which analyze_buffett_v2 has been called
EnginePcs == {"analyze", "roe", "margin", "debt", "book", "return", "analyzed",
              "raised", "rendered"}

EmptyStatementFetched ==
    ~data_pack.none /\ (IsEmpty(data_pack.fin) \/ IsEmpty(data_pack.bs))

\* C1: a fetched statement set whose income statement or balance sheet is
\* empty ends the request with an error: analyze_buffett_v2 is never called
\* on it and no scorecard is shown.
C1_EmptyStatementsStopTheRequest ==
    EmptyStatementFetched =>
        /\ pc \notin EnginePcs
        /\ ~shown.scorecard
        /\ (pc = "idle" => ErrorIsTruthy(shown.error))

\* the value of the most recent period can be read and is a number
Available(bs, label) == CanReadLatest(bs, label) /\ ~IsNaN(Latest(bs, label))

\* C2: when neither Total Debt nor Long Term Debt can be read from the
\* balance sheet, the report has debt_to_equity = 0 and debt_pass = false.
C2_NoDebtItemsFailsThePillar ==
    (/\ pc = "analyzed"
     /\ ~CanReadLatest(data_pack.bs, "Total Debt")
     /\ ~CanReadLatest(data_pack.bs, "Long Term Debt"))
    => (analysis.debt_to_equity = Zero /\ ~analysis.debt_pass)

\* the periods that have strictly positive equity and a reported net income
RECURSIVE KeptRoe(_, _)
KeptRoe(ni, eq) ==
    IF ni = <<>> THEN <<>>
    ELSE IF Gt(Head(eq), Zero) /\ ~IsNaN(Head(ni))
    THEN <<Times100(Div(Head(ni), Head(eq)))>> \o KeptRoe(Tail(ni), Tail(eq))
    ELSE KeptRoe(Tail(ni), Tail(eq))

PositiveEquityRoe(fin, bs) ==
    IF HasRow(fin, "Net Income") /\ HasRow(bs, "Stockholders Equity")
    THEN KeptRoe(Loc(fin, "Net Income"), Loc(bs, "Stockholders Equity"))
    ELSE <<>>

\* C3: avg_roe is the mean of NetIncome / StockholdersEquity * 100 over the
\* periods whose equity is strictly positive; with every period excluded
\* ROE is unavailable: avg_roe = 0, current_roe = 0, roe_pass = false.
C3_RoeAveragesPositiveEquityPeriods ==
    pc = "analyzed" =>
        LET kept == PositiveEquityRoe(data_pack.fin, data_pack.bs)
        IN  IF kept # <<>>
            THEN analysis.avg_roe = Mean(kept)
            ELSE /\ analysis.avg_roe = Zero
                 /\ analysis.current_roe = Zero
                 /\ ~analysis.roe_pass

\* C4: every numeric field of the report is a finite number (or the
\* sentinel 0), never NaN and never infinite.
C4_ReportNumbersAreFinite ==
    pc = "analyzed" =>
        /\ IsFinite(analysis.current_roe)
        /\ IsFinite(analysis.avg_roe)
        /\ IsFinite(analysis.current_margin)
        /\ IsFinite(analysis.debt_to_equity)

GrahamOperandsValid(info) ==
    /\ InfoGet(info, "trailingEps", PyNone).t = "int"
    /\ InfoGet(info, "trailingEps", PyNone).v > 0
    /\ InfoGet(info, "bookValue", PyNone).t = "int"
    /\ InfoGet(info, "bookValue", PyNone).v > 0

\* c hundredths is 100 * sqrt(22.5 * eps * bvps) rounded to the nearest
IsGrahamValue(c, eps, bvps) ==
    /\ c >= 0
    /\ (2 * c - 1) * (2 * c - 1) < 4 * 225000 * eps * bvps
    /\ 4 * 225000 * eps * bvps < (2 * c + 1) * (2 * c + 1)

\* C5: the Graham fair value is shown if and only if trailingEps and
\* bookValue are both present, numeric and strictly positive, and it then
\* equals sqrt(22.5 * trailingEps * bookValue); in every other case no
\* value is shown, and no exception escapes the block.
C5_GrahamIffPositiveOperands ==
    pc = "rendered" =>
        /\ shown.graham.metric <=> GrahamOperandsValid(data_pack.info)
        /\ shown.graham.metric =>
               IsGrahamValue(shown.graham.cents,
                             data_pack.info["trailingEps"].v,
                             data_pack.info["bookValue"].v)
        /\ ~shown.graham.metric => shown.graham.note \in {"cannot calculate", "insufficient"}
        /\ ~shown.exception

\* C5 witness: EPS = 5 and BVPS = 20 show 47.43
C5_Witness ==
    /\ pc = "rendered"
    /\ InfoGet(data_pack.info, "trailingEps", PyNone) = PyInt(5)
    /\ InfoGet(data_pack.info, "bookValue", PyNone) = PyInt(20)
    /\ shown.graham.metric
    /\ shown.graham.cents = 4743

\* C6: analyze_buffett_v2 returns a report with all of its keys and never
\* raises, whatever line items or periods are missing.
C6_AnalysisAlwaysReturnsAReport ==
    /\ pc # "raised"
    /\ pc = "analyzed" => DOMAIN analysis = ReportKeys

\* C7: debt_to_equity is TotalDebt / StockholdersEquity of the most recent
\* period when total debt is available, LongTermDebt / StockholdersEquity
\* when total debt is unavailable (row absent or most recent value missing)
\* and long-term debt is available; debt_pass iff the ratio is below 0.8.
C7_DebtRatioFallsBackToLongTermDebt ==
    (pc = "analyzed" /\ CanReadLatest(data_pack.bs, "Stockholders Equity")) =>
        LET bs == data_pack.bs
            equity == Latest(bs, "Stockholders Equity")
        IN  /\ Available(bs, "Total Debt") =>
                analysis.debt_to_equity = Div(Latest(bs, "Total Debt"), equity)
            /\ (~Available(bs, "Total Debt") /\ Available(bs, "Long Term Debt")) =>
                analysis.debt_to_equity = Div(Latest(bs, "Long Term Debt"), equity)
            /\ analysis.debt_pass <=>
                Lt(analysis.debt_to_equity, DebtTarget)

\* C8: when the most recent Stockholders Equity is zero or negative, the
\* debt-to-equity metric is marked unavailable (0) instead of a negative or
\* infinite ratio, and the debt pillar does not pass.
C8_NonPositiveEquityFailsThePillar ==
    (/\ pc = "analyzed"
     /\ Available(data_pack.bs, "Stockholders Equity")
     /\ ~Gt(Latest(data_pack.bs, "Stockholders Equity"), Zero)
     /\ (Available(data_pack.bs, "Total Debt") \/ Available(data_pack.bs, "Long Term Debt")))
    => (analysis.debt_to_equity = Zero /\ ~analysis.debt_pass)

\* C10: analyze_buffett_v2 is called only with a data bundle: when
\* fetch_company_data returned no bundle the analysis is skipped and nothing
\* raises.
C10_AnalysisOnlyOnABundle ==
    data_pack.none => (pc # "analyze" /\ ~shown.exception)

=============================================================================
